---- MODULE Spec2Model ----
(***************************************************************************)
(* A model of merkl-mcp: the Merkl REST client (MerklClient: query         *)
(* encoding, fetchJson with its abort timer) and the MCP tool handlers of  *)
(* server.ts that validate input, call the client once and reshape the     *)
(* upstream JSON.                                                          *)
(*                                                                         *)
(* JavaScript strings are sequences of one-character strings; object keys  *)
(* (identifiers, which URL-encode to themselves) are kept as atoms.  A     *)
(* JavaScript object is the sequence of its <<key, value>> entries in      *)
(* Object.entries order.                                                   *)
(***************************************************************************)
EXTENDS Integers, Sequences, FiniteSets, TLC

VARIABLES
    launcher,   \* the CLI launcher process: position, build and server children
    opts,       \* the options the client was constructed with
    env,        \* process.env: MERKL_TIMEOUT_MS, MERKL_API_KEY
    client,     \* the shared MerklClient of server.ts: timeoutMs, apiKey
    now,        \* Date.now(), in milliseconds
    pc,         \* per invocation: "idle", "fetch", "json", "done"
    tool,       \* per invocation: the tool invoked
    args,       \* per invocation: the caller's input object
    request,    \* per invocation: the upstream requests issued, in order
    timer,      \* per invocation: the timers created by setTimeout, in order
    signal,     \* per invocation: controller.signal.aborted
    response,   \* per invocation: what the upstream answered
    fetched,    \* per invocation: what the fetchJson call settled with
    outcome,    \* per invocation: the result or the error of the tool call
    settledAt,  \* per invocation: Date.now() when the handler finished
    params,     \* toQuery's argument (query codec specification)
    qs          \* toQuery's return value, or NotRun

vars == <<launcher, opts, env, client, now, pc, tool, args, request, timer, signal, response,
          fetched, outcome, settledAt, params, qs>>

(***************************************************************************)
(* Bounds of the model.                                                    *)
(***************************************************************************)
MaxKeys == 2        \* entries of a filter object given to toQuery
MaxListLen == 2     \* elements of a list-valued filter
MaxIdLen == 5       \* characters of an id string
MaxRows == 2        \* campaigns of an upstream list or sub-list
MaxEpoch == 2       \* largest upstream epoch-seconds timestamp
MaxTicks == 4       \* clock ticks of TickMs milliseconds
NumCalls == 2       \* concurrent tool invocations
MaxExitCode == 2    \* largest exit code of a child process

(***************************************************************************)
(* JavaScript values.                                                      *)
(***************************************************************************)
Undefined == [t |-> "undefined"]
Null == [t |-> "null"]
Str(s) == [t |-> "string", s |-> s]
Num(n) == [t |-> "number", n |-> n]
NaN == [t |-> "number", nan |-> TRUE]
Bool(b) == [t |-> "boolean", b |-> b]
Arr(l) == [t |-> "array", l |-> l]

IsStr(v) == v.t = "string"
IsNum(v) == v.t = "number" /\ "n" \in DOMAIN v
IsArr(v) == v.t = "array"

Chars(str) ==
    CASE str = "true" -> <<"t", "r", "u", "e">>
      [] str = "false" -> <<"f", "a", "l", "s", "e">>
      [] str = "null" -> <<"n", "u", "l", "l">>
      [] str = "undefined" -> <<"u", "n", "d", "e", "f", "i", "n", "e", "d">>
      [] str = "NaN" -> <<"N", "a", "N">>

Digit == {"0", "1", "2", "3", "4", "5", "6", "7", "8", "9"}
Upper == {"A", "B", "C", "D", "E", "F", "G", "H", "I", "J", "K", "L", "M",
          "N", "O", "P", "Q", "R", "S", "T", "U", "V", "W", "X", "Y", "Z"}
Lower == {"a", "b", "c", "d", "e", "f", "g", "h", "i", "j", "k", "l", "m",
          "n", "o", "p", "q", "r", "s", "t", "u", "v", "w", "x", "y", "z"}

DigitChar(d) ==
    CASE d = 0 -> "0" [] d = 1 -> "1" [] d = 2 -> "2" [] d = 3 -> "3"
      [] d = 4 -> "4" [] d = 5 -> "5" [] d = 6 -> "6" [] d = 7 -> "7"
      [] d = 8 -> "8" [] d = 9 -> "9"

DigitValue(c) == CHOOSE d \in 0..9 : DigitChar(d) = c

RECURSIVE NatString(_)
NatString(n) ==
    IF n < 10 THEN <<DigitChar(n)>>
    ELSE NatString(n \div 10) \o <<DigitChar(n % 10)>>

\* Number.prototype.toString for integers
NumberString(n) == IF n < 0 THEN <<"-">> \o NatString(-n) ELSE NatString(n)

\* String(v) for a value that is not an array
ScalarString(v) ==
    CASE v.t = "string" -> v.s
      [] v.t = "number" -> IF "n" \in DOMAIN v THEN NumberString(v.n) ELSE Chars("NaN")
      [] v.t = "boolean" -> IF v.b THEN Chars("true") ELSE Chars("false")
      [] v.t = "null" -> Chars("null")
      [] v.t = "undefined" -> Chars("undefined")

\* Array.prototype.join: null and undefined elements give the empty string
JoinElement(v) == IF v.t \in {"null", "undefined"} THEN <<>> ELSE ScalarString(v)

RECURSIVE join(_, _)
join(l, sep) ==
    IF Len(l) = 0 THEN <<>>
    ELSE IF Len(l) = 1 THEN JoinElement(l[1])
    ELSE JoinElement(l[1]) \o sep \o join(Tail(l), sep)

\* Number(s) for a string: a decimal integer, or NaN
RECURSIVE DigitsValue(_)
DigitsValue(s) ==
    IF Len(s) = 0 THEN 0
    ELSE 10 * DigitsValue(SubSeq(s, 1, Len(s) - 1)) + DigitValue(s[Len(s)])

Number(v) ==
    IF v.t = "string" /\ Len(v.s) > 0 /\ \A i \in 1..Len(v.s) : v.s[i] \in Digit
    THEN Num(DigitsValue(v.s))
    ELSE IF v.t = "string" /\ Len(v.s) = 0 THEN Num(0)
    ELSE IF v.t = "number" THEN v
    ELSE NaN

(***************************************************************************)
(* Objects: sequences of <<key, value>> entries.                           *)
(***************************************************************************)
Keys(o) == {o[i][1] : i \in 1..Len(o)}

has(o, k) == k \in Keys(o)

Get(o, k) ==
    IF has(o, k) THEN o[CHOOSE i \in 1..Len(o) : o[i][1] = k][2] ELSE Undefined

\* _.set(object, key, value) on a plain object: assign, a new key goes last
set(o, k, v) ==
    IF has(o, k) THEN [i \in 1..Len(o) |-> IF o[i][1] = k THEN <<k, v>> ELSE o[i]]
    ELSE Append(o, <<k, v>>)

(***************************************************************************)
(* MerklClient.toQuery                                                     *)
(***************************************************************************)
\* a variant of qsSet that puts a new name first
qsSetFront(q, k, s) ==
    IF \E i \in 1..Len(q) : q[i][1] = k
    THEN [i \in 1..Len(q) |-> IF q[i][1] = k THEN <<k, s>> ELSE q[i]]
    ELSE <<<<k, s>>>> \o q

\* URLSearchParams.set: replace the value of an existing name, else append
qsSet(q, k, s) ==
    IF \E i \in 1..Len(q) : q[i][1] = k
    THEN [i \in 1..Len(q) |-> IF q[i][1] = k THEN <<k, s>> ELSE q[i]]
    ELSE Append(q, <<k, s>>)

\* application/x-www-form-urlencoded byte serialisation of one character
UrlEncodeChar(c) ==
    IF c \in Digit \cup Upper \cup Lower \cup {"*", "-", ".", "_"} THEN <<c>>
    ELSE CASE c = " " -> <<"+">>
           [] c = "," -> <<"%", "2", "C">>
           [] c = "=" -> <<"%", "3", "D">>
           [] c = "&" -> <<"%", "2", "6">>
           [] c = "!" -> <<"%", "2", "1">>

RECURSIVE UrlEncode(_)
UrlEncode(s) == IF Len(s) = 0 THEN <<>> ELSE UrlEncodeChar(s[1]) \o UrlEncode(Tail(s))

\* URLSearchParams.toString
RECURSIVE qsToString(_)
qsToString(q) ==
    IF Len(q) = 0 THEN <<>>
    ELSE <<q[1][1], "=">> \o UrlEncode(q[1][2])
         \o (IF Len(q) > 1 THEN <<"&">> \o qsToString(Tail(q)) ELSE <<>>)

\* a variant of toQueryEntry that skips every falsy value
toQueryEntryTruthy(q, k, v) ==
    IF v \in {Undefined, Null, Str(<<>>), Num(0), Bool(FALSE)} THEN q
    ELSE IF IsArr(v)
         THEN IF Len(v.l) # 0 THEN qsSet(q, k, join(v.l, <<",">>)) ELSE q
         ELSE qsSet(q, k, ScalarString(v))

\* the loop body of toQuery for one entry
toQueryEntry(q, k, v) ==
    IF v = Undefined \/ v = Null \/ v = Str(<<>>) THEN q
    ELSE IF IsArr(v)
         THEN IF Len(v.l) # 0 THEN qsSet(q, k, join(v.l, <<",">>)) ELSE q
         ELSE qsSet(q, k, ScalarString(v))

\* the URLSearchParams toQuery has built when its loop ends
RECURSIVE toQueryParams(_)
toQueryParams(o) ==
    IF Len(o) = 0 THEN <<>>
    ELSE toQueryEntry(toQueryParams(SubSeq(o, 1, Len(o) - 1)), o[Len(o)][1], o[Len(o)][2])

toQuery(o) ==
    LET s == qsToString(toQueryParams(o))
    IN IF Len(s) # 0 THEN <<"?">> \o s ELSE <<>>

(***************************************************************************)
(* Input validation: the id patterns of the tools' input schemas.          *)
(***************************************************************************)
MaxIdDigits == 20

Alnum == Digit \cup Upper \cup Lower

AllIn(s, C) == \A i \in 1..Len(s) : s[i] \in C

\* [0-9]*-[0-9A-Z]*-0x[0-9A-Za-z]{minHex,} matched against the whole of s
CompositeId(s, minHex) ==
    \E i, j \in 1..Len(s) :
        /\ i < j
        /\ s[i] = "-"
        /\ s[j] = "-"
        /\ AllIn(SubSeq(s, 1, i - 1), Digit)
        /\ AllIn(SubSeq(s, i + 1, j - 1), Digit \cup Upper)
        /\ Len(s) >= j + 2
        /\ s[j + 1] = "0"
        /\ s[j + 2] = "x"
        /\ AllIn(SubSeq(s, j + 3, Len(s)), Alnum)
        /\ Len(s) - (j + 2) >= minHex

\* [0-9]{lo,hi} matched against the whole of s
DigitRun(s, lo, hi) == Len(s) >= lo /\ Len(s) <= hi /\ AllIn(s, Digit)

\* RegExp.prototype.test of an unanchored pattern: some substring matches
Substrings(s) ==
    {SubSeq(s, a, b) : a \in 1..(Len(s) + 1), b \in 0..Len(s)}

OpportunityIdPattern(s) == CompositeId(s, 0) \/ DigitRun(s, 1, MaxIdDigits)

\* opportunities-get: /(([0-9]*)-([0-9A-Z]*)-(0x([0-9A-Za-z])*))|([0-9]{1,20})/
opportunitiesGetId(s) == \E m \in Substrings(s) : OpportunityIdPattern(m)

\* opportunities-campaigns:
\* /(^([0-9]*)-([0-9A-Z]*)-(0x[0-9A-Za-z]+)$)|(^[0-9]{1,20}$)/
opportunitiesCampaignsId(s) == CompositeId(s, 1) \/ DigitRun(s, 1, MaxIdDigits)

\* a variant of campaignsGetId without the anchors
campaignsGetIdUnanchored(s) == \E i \in 1..Len(s) : s[i] \in Digit

\* campaigns-get: /^[0-9]+$/
campaignsGetId(s) == Len(s) >= 1 /\ AllIn(s, Digit)

MinItems == 1
MaxItems == 100
DefaultItems == 100

\* items: z.number().min(1).max(100), when the caller supplies it
itemsOk(a) ==
    has(a, "items") =>
        /\ IsNum(Get(a, "items"))
        /\ Get(a, "items").n >= MinItems
        /\ Get(a, "items").n <= MaxItems

\* id: z.string().regex(...), required
idOk(t, a) ==
    /\ has(a, "id")
    /\ IsStr(Get(a, "id"))
    /\ CASE t = "opportunities-get" -> opportunitiesGetId(Get(a, "id").s)
         [] t = "opportunities-campaigns" -> opportunitiesCampaignsId(Get(a, "id").s)
         [] t = "campaigns-get" -> campaignsGetId(Get(a, "id").s)

Tools ==
    {"get-current-timestamp", "opportunities-search", "opportunities-get",
     "opportunities-campaigns", "opportunities-count", "opportunities-bins-apr",
     "opportunities-bins-tvl", "opportunities-aggregate",
     "opportunities-aggregate-max", "opportunities-aggregate-min",
     "campaigns-search", "campaigns-get", "campaigns-count"}

AggregateTools ==
    {"opportunities-aggregate", "opportunities-aggregate-max",
     "opportunities-aggregate-min"}

\* the input schema of each tool, on the fields the model draws
Validate(t, a) ==
    CASE t \in {"opportunities-get", "opportunities-campaigns", "campaigns-get"} ->
            idOk(t, a)
      [] t \in {"opportunities-search", "campaigns-search"} -> itemsOk(a)
      [] t \in AggregateTools -> has(a, "field") /\ IsStr(Get(a, "field"))
      [] OTHER -> TRUE

(***************************************************************************)
(* Response shaping helpers of server.ts.                                  *)
(***************************************************************************)
MsPerSecond == 1000

RECURSIVE Pad(_, _)
Pad(s, w) == IF Len(s) >= w THEN s ELSE Pad(<<"0">> \o s, w)

\* Date.prototype.toISOString of a time value within years 0000..9999
ToISOString(ms) ==
    LET days == ms \div 86400000
        rem == ms % 86400000
        z == days + 719468
        era == z \div 146097
        doe == z - era * 146097
        yoe == (doe - doe \div 1460 + doe \div 36524 - doe \div 146096) \div 365
        doy == doe - (365 * yoe + yoe \div 4 - yoe \div 100)
        mp == (5 * doy + 2) \div 153
        d == doy - (153 * mp + 2) \div 5 + 1
        m == IF mp < 10 THEN mp + 3 ELSE mp - 9
        y == yoe + era * 400 + (IF m <= 2 THEN 1 ELSE 0)
    IN Pad(NatString(y), 4) \o <<"-">> \o Pad(NatString(m), 2) \o <<"-">>
       \o Pad(NatString(d), 2) \o <<"T">>
       \o Pad(NatString(rem \div 3600000), 2) \o <<":">>
       \o Pad(NatString((rem \div 60000) % 60), 2) \o <<":">>
       \o Pad(NatString((rem \div 1000) % 60), 2) \o <<".">>
       \o Pad(NatString(rem % 1000), 3) \o <<"Z">>

Result(v) == [kind |-> "result", value |-> v]
Thrown(name, text) == [kind |-> "error", error |-> [name |-> name, text |-> text]]
NoOutcome == [kind |-> "none"]

\* formatTimestamp: timestamp * 1000 is NaN unless timestamp converts to a
\* number, and toISOString throws a RangeError on an invalid date
formatTimestamp(ts) ==
    LET n == IF ts = Null THEN Num(0) ELSE Number(ts)
    IN IF IsNum(n) THEN Result(ToISOString(n.n * MsPerSecond))
       ELSE Thrown("RangeError", "Invalid time value")

\* a property read: undefined when the object has no such property
Prop(r, k) == IF k \in DOMAIN r THEN r[k] ELSE Undefined

UpperSeq == <<"A", "B", "C", "D", "E", "F", "G", "H", "I", "J", "K", "L", "M",
              "N", "O", "P", "Q", "R", "S", "T", "U", "V", "W", "X", "Y", "Z">>
LowerSeq == <<"a", "b", "c", "d", "e", "f", "g", "h", "i", "j", "k", "l", "m",
              "n", "o", "p", "q", "r", "s", "t", "u", "v", "w", "x", "y", "z">>

toLower(c) ==
    IF c \in Upper THEN LowerSeq[CHOOSE i \in 1..Len(UpperSeq) : UpperSeq[i] = c] ELSE c

\* _.lowerCase on a name lodash splits with its ASCII word pattern: the runs
\* of letters and digits, lower-cased and joined with single spaces
RECURSIVE lowerCaseFrom(_, _, _)
lowerCaseFrom(s, acc, word) ==
    IF Len(s) = 0
    THEN IF Len(word) = 0 THEN acc
         ELSE IF Len(acc) = 0 THEN word ELSE acc \o <<" ">> \o word
    ELSE IF s[1] \in Alnum
         THEN lowerCaseFrom(Tail(s), acc, Append(word, toLower(s[1])))
         ELSE lowerCaseFrom(Tail(s),
                            IF Len(word) = 0 THEN acc
                            ELSE IF Len(acc) = 0 THEN word ELSE acc \o <<" ">> \o word,
                            <<>>)

lowerCase(s) == lowerCaseFrom(s, <<>>, <<>>)

\* the first element of a mapped list that threw, if any
FirstThrown(l) ==
    IF \E i \in 1..Len(l) : l[i].kind = "error"
    THEN l[CHOOSE i \in 1..Len(l) :
             l[i].kind = "error" /\ \A j \in 1..(i - 1) : l[j].kind # "error"]
    ELSE NoOutcome

Values(l) == [i \in 1..Len(l) |-> l[i].value]

\* _(r[k]).map(f) iterates the array r[k]; a missing property maps to []
ListProp(r, k) == IF k \in DOMAIN r THEN r[k] ELSE <<>>

\* a variant of Link that lower-cases the name with String.toLowerCase
LinkToLowerCase(chainName, type, token) ==
    [base |-> "https://app.merkl.xyz/opportunities/",
     chain |-> [k \in 1..Len(chainName) |-> toLower(chainName[k])],
     type |-> type, token |-> token]

Link(chainName, type, token) ==
    [base |-> "https://app.merkl.xyz/opportunities/", chain |-> lowerCase(chainName),
     type |-> type, token |-> token]

(***************************************************************************)
(* The tool handlers of server.ts, from the upstream JSON to the outcome.  *)
(***************************************************************************)
\* opportunities-search: one campaign of an opportunity's sub-list
searchCampaign(c) ==
    LET st == formatTimestamp(Prop(c, "startTimestamp"))
        en == formatTimestamp(Prop(c, "endTimestamp"))
    IN IF st.kind = "error" THEN st
       ELSE IF en.kind = "error" THEN en
       ELSE Result([id |-> Prop(c, "id"), campaignId |-> Prop(c, "campaignId"),
                    type |-> Prop(c, "type"), startTime |-> st.value,
                    endTime |-> en.value, endTimestamp |-> Prop(c, "endTimestamp")])

\* a variant of keepCampaign with a strict comparison
keepCampaignStrict(c, nowMs, excludeEndedCampaigns) ==
    c.endTimestamp.n * MsPerSecond > nowMs \/ ~excludeEndedCampaigns

\* the filter of line 205: c.endTimestamp >= nowTs || !excludeEndedCampaigns,
\* with nowTs = Date.now() / 1000 (a fraction of seconds, compared exactly)
keepCampaign(c, nowMs, excludeEndedCampaigns) ==
    c.endTimestamp.n * MsPerSecond >= nowMs \/ ~excludeEndedCampaigns

\* args.excludeEndedCampaigns !== false
excludeEnded(a) == Get(a, "excludeEndedCampaigns") # Bool(FALSE)

searchOpportunity(r, nowMs, excludeEndedCampaigns) ==
    IF Prop(r, "chain") = Undefined
    THEN Thrown("TypeError", "Cannot read properties of undefined")
    ELSE LET cs == [i \in 1..Len(ListProp(r, "campaigns")) |->
                       searchCampaign(ListProp(r, "campaigns")[i])]
         IN IF FirstThrown(cs) # NoOutcome THEN FirstThrown(cs)
            ELSE Result([id |-> Prop(r, "id"), name |-> Prop(r, "name"),
                         type |-> Prop(r, "type"),
                         link |-> Link(r.chain.name, Prop(r, "type"), Prop(r, "identifier")),
                         campaigns |-> SelectSeq(Values(cs),
                             LAMBDA c : keepCampaign(c, nowMs, excludeEndedCampaigns))])

opportunitiesSearch(a, data, nowMs) ==
    LET rs == [i \in 1..Len(data) |-> searchOpportunity(data[i], nowMs, excludeEnded(a))]
    IN IF FirstThrown(rs) # NoOutcome THEN FirstThrown(rs)
       ELSE Result([results |-> Values(rs)])

\* opportunities-get and opportunities-campaigns: one campaign of the list
getCampaignEntry(c) ==
    LET st == formatTimestamp(Prop(c, "startTime"))
        en == formatTimestamp(Prop(c, "endTime"))
    IN IF st.kind = "error" THEN st
       ELSE IF en.kind = "error" THEN en
       ELSE Result([id |-> Prop(c, "id"), name |-> Prop(c, "name"),
                    description |-> Prop(c, "description"),
                    startTime |-> st.value, endTime |-> en.value])

\* the body of both handlers: the properties of the fetched opportunity are
\* read, campaigns is a lodash wrapper that JSON.stringify evaluates
opportunityResult(opportunity) ==
    IF opportunity = Null
    THEN Thrown("TypeError", "Cannot read properties of null")
    ELSE LET cs == [i \in 1..Len(ListProp(opportunity, "campaigns")) |->
                       getCampaignEntry(ListProp(opportunity, "campaigns")[i])]
         IN IF FirstThrown(cs) # NoOutcome THEN FirstThrown(cs)
            ELSE Result([opportunity |->
                     [id |-> Prop(opportunity, "id"), name |-> Prop(opportunity, "name"),
                      type |-> Prop(opportunity, "type"),
                      identifier |-> Prop(opportunity, "identifier"),
                      campaigns |-> [lodashWrapper |-> TRUE, value |-> Values(cs)]]])

opportunitiesGet(opportunity) == opportunityResult(opportunity)

opportunitiesCampaigns(opportunity) == opportunityResult(opportunity)

\* campaigns-search: one row, before the filter
searchedCampaign(c) ==
    IF Prop(c, "chain") = Undefined \/ Prop(c, "params") = Undefined
    THEN Thrown("TypeError", "Cannot read properties of undefined")
    ELSE LET st == formatTimestamp(Prop(c, "startTimestamp"))
             en == formatTimestamp(Prop(c, "endTimestamp"))
         IN IF st.kind = "error" THEN st
            ELSE IF en.kind = "error" THEN en
            ELSE Result([id |-> Prop(c, "id"), campaignId |-> Prop(c, "campaignId"),
                         type |-> Prop(c, "type"),
                         startTime |-> st.value, endTime |-> en.value,
                         link |-> Link(c.chain.name, Prop(c, "type"),
                                       IF Prop(c.params, "targetToken") \notin {Null, Undefined}
                                       THEN Prop(c.params, "targetToken")
                                       ELSE Prop(c.params, "poolAddress"))])

\* a variant of validType that drops nothing
validTypeAny(c) == TRUE

\* the filter of line 968
validType(c) == c.type # "INVALID"

campaignsSearch(data) ==
    LET rs == [i \in 1..Len(data) |-> searchedCampaign(data[i])]
    IN IF FirstThrown(rs) # NoOutcome THEN FirstThrown(rs)
       ELSE Result([results |-> SelectSeq(Values(rs), validType)])

campaignsGet(campaign) ==
    IF campaign = Null
    THEN Thrown("TypeError", "Cannot read properties of null")
    ELSE LET st == formatTimestamp(Prop(campaign, "startTime"))
             en == formatTimestamp(Prop(campaign, "endTime"))
         IN IF st.kind = "error" THEN st
            ELSE IF en.kind = "error" THEN en
            ELSE Result([campaign |->
                     [id |-> Prop(campaign, "id"), campaignId |-> Prop(campaign, "campaignId"),
                      type |-> Prop(campaign, "type"),
                      startTime |-> st.value, endTime |-> en.value]])

\* campaignSchema: the keys it requires (the upstream rows drawn carry a
\* string under every key a handler copies)
campaignSchema(c) ==
    {"id", "campaignId", "type", "startTime", "endTime"} \subseteq DOMAIN c

\* JSON.stringify of a lodash wrapper: toJSON is value()
toJSON(x) == x.value

\* the declared outputSchema of tool t applied to the structured result v as
\* the caller receives it, on the keys the model carries
outputSchema(t, v) ==
    CASE t = "get-current-timestamp" -> "timestamp" \in DOMAIN v
      [] t = "opportunities-search" ->
            \A k \in 1..Len(v.results) :
                /\ {"id", "name", "type", "link", "campaigns"} \subseteq DOMAIN v.results[k]
                /\ \A j \in 1..Len(v.results[k].campaigns) :
                       campaignSchema(v.results[k].campaigns[j])
      [] t \in {"opportunities-get", "opportunities-campaigns"} ->
            \/ v.opportunity = Null
            \/ /\ {"id", "name", "type", "identifier"} \subseteq DOMAIN v.opportunity
               /\ \A j \in 1..Len(toJSON(v.opportunity.campaigns)) :
                      campaignSchema(toJSON(v.opportunity.campaigns)[j])
      [] t = "campaigns-search" ->
            \A j \in 1..Len(v.results) :
                campaignSchema(v.results[j]) /\ "link" \in DOMAIN v.results[j]
      [] t = "campaigns-get" -> v.campaign = Null \/ campaignSchema(v.campaign)
      [] t \in {"opportunities-count", "campaigns-count"} -> IsNum(v.count)
      [] t \in {"opportunities-bins-apr", "opportunities-bins-tvl"} ->
            \A j \in 1..Len(v.bins) : {"label", "count"} \subseteq DOMAIN v.bins[j]
      [] t = "opportunities-aggregate" ->
            \A j \in 1..Len(v.buckets) : {"value", "count"} \subseteq DOMAIN v.buckets[j]
      [] t \in {"opportunities-aggregate-max", "opportunities-aggregate-min"} ->
            v.value = Null \/ IsNum(v.value)

\* what a handler does with the value its client call resolved to
\* an opportunity without the campaigns whose endTime is in the past
dropEnded(o, nowMs) ==
    IF "campaigns" \notin DOMAIN o THEN o
    ELSE [o EXCEPT !.campaigns =
             SelectSeq(@, LAMBDA c : "endTime" \notin DOMAIN c
                                     \/ c.endTime.n * MsPerSecond >= nowMs)]

\* a variant of Handler in which the get tools drop ended campaigns as
\* opportunities-search does
HandlerDropEnded(t, a, data, nowMs) ==
    CASE t = "opportunities-search" -> opportunitiesSearch(a, data, nowMs)
      [] t = "opportunities-get" -> opportunitiesGet(dropEnded(data, nowMs))
      [] t = "opportunities-campaigns" -> opportunitiesCampaigns(dropEnded(data, nowMs))
      [] t = "campaigns-search" -> campaignsSearch(data)
      [] t = "campaigns-get" -> campaignsGet(data)
      [] t \in {"opportunities-count", "campaigns-count"} -> Result([count |-> data])
      [] t \in {"opportunities-bins-apr", "opportunities-bins-tvl"} -> Result([bins |-> data])
      [] t = "opportunities-aggregate" -> Result([buckets |-> data])
      [] t \in {"opportunities-aggregate-max", "opportunities-aggregate-min"} ->
            Result([value |-> data])

Handler(t, a, data, nowMs) ==
    CASE t = "opportunities-search" -> opportunitiesSearch(a, data, nowMs)
      [] t = "opportunities-get" -> opportunitiesGet(data)
      [] t = "opportunities-campaigns" -> opportunitiesCampaigns(data)
      [] t = "campaigns-search" -> campaignsSearch(data)
      [] t = "campaigns-get" -> campaignsGet(data)
      [] t \in {"opportunities-count", "campaigns-count"} -> Result([count |-> data])
      [] t \in {"opportunities-bins-apr", "opportunities-bins-tvl"} -> Result([bins |-> data])
      [] t = "opportunities-aggregate" -> Result([buckets |-> data])
      [] t \in {"opportunities-aggregate-max", "opportunities-aggregate-min"} ->
            Result([value |-> data])

(***************************************************************************)
(* MerklClient: construction, headers, the endpoint methods and fetchJson. *)
(***************************************************************************)
DefaultTimeoutMs == 20000

\* a variant of MerklClient in which MERKL_TIMEOUT_MS takes precedence over
\* the constructor option
MerklClientEnvFirst(o, e) ==
    LET envTimeout == IF Prop(e, "MERKL_TIMEOUT_MS") \notin {Undefined, Str(<<>>)}
                      THEN Number(e.MERKL_TIMEOUT_MS) ELSE Undefined
    IN [apiKey |-> IF Prop(o, "apiKey") \notin {Undefined, Null}
                   THEN o.apiKey ELSE Prop(e, "MERKL_API_KEY"),
        timeoutMs |-> IF IsNum(envTimeout) THEN envTimeout.n
                      ELSE IF IsNum(Prop(o, "timeoutMs")) THEN o.timeoutMs.n
                      ELSE DefaultTimeoutMs]

\* the constructor, for new MerklClient(o) under process.env e
MerklClient(o, e) ==
    LET envTimeout == IF Prop(e, "MERKL_TIMEOUT_MS") \notin {Undefined, Str(<<>>)}
                      THEN Number(e.MERKL_TIMEOUT_MS) ELSE Undefined
    IN [apiKey |-> IF Prop(o, "apiKey") \notin {Undefined, Null}
                   THEN o.apiKey ELSE Prop(e, "MERKL_API_KEY"),
        timeoutMs |-> IF IsNum(Prop(o, "timeoutMs")) THEN o.timeoutMs.n
                      ELSE IF IsNum(envTimeout) THEN envTimeout.n
                      ELSE DefaultTimeoutMs]

\* a variant of headers that always sends an authorization header
headersAlways(c) ==
    [contentType |-> "application/json",
     authorization |-> <<"Bearer ">> \o ScalarString(c.apiKey)]

headers(c) ==
    IF c.apiKey \notin {Undefined, Null, Str(<<>>)}
    THEN [contentType |-> "application/json", authorization |-> <<"Bearer ">> \o c.apiKey.s]
    ELSE [contentType |-> "application/json"]

\* encodeURIComponent keeps letters, digits and - _ . ! ~ * ' ( )
encodeURIComponentChar(c) ==
    IF c \in Alnum \cup {"-", "_", ".", "!", "~", "*", "'", "(", ")"} THEN <<c>>
    ELSE CASE c = " " -> <<"%", "2", "0">>
           [] c = "," -> <<"%", "2", "C">>
           [] c = "/" -> <<"%", "2", "F">>
           [] c = "=" -> <<"%", "3", "D">>
           [] c = "&" -> <<"%", "2", "6">>

RECURSIVE encodeURIComponent(_)
encodeURIComponent(s) ==
    IF Len(s) = 0 THEN <<>>
    ELSE encodeURIComponentChar(s[1]) \o encodeURIComponent(Tail(s))

\* the object a handler hands to its client method as the query q
pick(a, ks) == [i \in 1..Len(ks) |-> <<ks[i], Get(a, ks[i])>>]

without(a, k) == SelectSeq(a, LAMBDA e : e[1] # k)

\* a variant of withDefault that injects nothing
withDefaultNever(a, k, v) == a

\* if (_(args).has(k) === false) args = _(args).set(k, v).value()
withDefault(a, k, v) == IF has(a, k) = FALSE THEN set(a, k, v) ELSE a

\* a variant of HandlerQuery in which opportunities-search always asks for
\* campaigns
HandlerQueryForced(t, a) ==
    IF t = "opportunities-search"
    THEN set(withDefault(a, "items", Num(DefaultItems)), "campaigns", Bool(TRUE))
    ELSE a

\* a variant of HandlerQuery in which opportunities-search keeps the
\* client-side flag excludeEndedCampaigns out of the upstream query
HandlerQueryClientOnly(t, a) ==
    CASE t = "opportunities-search" ->
            without(withDefault(withDefault(a, "campaigns", Bool(TRUE)),
                                "items", Num(DefaultItems)),
                    "excludeEndedCampaigns")
      [] t \in {"opportunities-get", "opportunities-campaigns"} ->
            pick(a, <<"test", "point", "tokenTypes", "campaigns", "excludeSubCampaigns">>)
      [] t = "campaigns-search" -> withDefault(a, "items", Num(DefaultItems))
      [] t = "campaigns-get" ->
            pick(a, <<"test", "point", "tokenTypes", "excludeSubCampaigns">>)
      [] t \in AggregateTools -> without(a, "field")
      [] OTHER -> a

HandlerQuery(t, a) ==
    CASE t = "opportunities-search" ->
            withDefault(withDefault(a, "campaigns", Bool(TRUE)), "items", Num(DefaultItems))
      [] t \in {"opportunities-get", "opportunities-campaigns"} ->
            pick(a, <<"test", "point", "tokenTypes", "campaigns", "excludeSubCampaigns">>)
      [] t = "campaigns-search" -> withDefault(a, "items", Num(DefaultItems))
      [] t = "campaigns-get" ->
            pick(a, <<"test", "point", "tokenTypes", "excludeSubCampaigns">>)
      [] t \in AggregateTools -> without(a, "field")
      [] OTHER -> a

\* a variant of Method in which the count endpoints also pass allow404
MethodCount404(t) ==
    CASE t = "opportunities-count" ->
            [name |-> "countOpportunities", path |-> "/v4/opportunities/count",
             allow404 |-> TRUE]
      [] t = "campaigns-count" ->
            [name |-> "countCampaigns", path |-> "/v4/campaigns/count", allow404 |-> TRUE]
      [] t \in {"opportunities-get", "opportunities-campaigns", "campaigns-get"} ->
            [name |-> "get", path |-> "/v4/{id}", allow404 |-> TRUE]
      [] OTHER -> [name |-> "list", path |-> "/v4/", allow404 |-> FALSE]

\* the client method a handler calls: its endpoint, and whether it passes
\* allow404 to fetchJson
Method(t) ==
    CASE t = "opportunities-search" ->
            [name |-> "listOpportunities", path |-> "/v4/opportunities/", allow404 |-> FALSE]
      [] t = "opportunities-get" ->
            [name |-> "getOpportunity", path |-> "/v4/opportunities/{id}", allow404 |-> TRUE]
      [] t = "opportunities-campaigns" ->
            [name |-> "getOpportunityCampaigns",
             path |-> "/v4/opportunities/{id}/campaigns", allow404 |-> TRUE]
      [] t = "opportunities-count" ->
            [name |-> "countOpportunities", path |-> "/v4/opportunities/count",
             allow404 |-> FALSE]
      [] t = "opportunities-bins-apr" ->
            [name |-> "binsApr", path |-> "/v4/opportunities/bins/apr", allow404 |-> FALSE]
      [] t = "opportunities-bins-tvl" ->
            [name |-> "binsTvl", path |-> "/v4/opportunities/bins/tvl", allow404 |-> FALSE]
      [] t = "opportunities-aggregate" ->
            [name |-> "aggregate", path |-> "/v4/opportunities/aggregate/{id}",
             allow404 |-> FALSE]
      [] t = "opportunities-aggregate-max" ->
            [name |-> "aggregateMax", path |-> "/v4/opportunities/aggregate/max/{id}",
             allow404 |-> FALSE]
      [] t = "opportunities-aggregate-min" ->
            [name |-> "aggregateMin", path |-> "/v4/opportunities/aggregate/min/{id}",
             allow404 |-> FALSE]
      [] t = "campaigns-search" ->
            [name |-> "listCampaigns", path |-> "/v4/campaigns", allow404 |-> FALSE]
      [] t = "campaigns-get" ->
            [name |-> "getCampaign", path |-> "/v4/campaigns/{id}", allow404 |-> TRUE]
      [] t = "campaigns-count" ->
            [name |-> "countCampaigns", path |-> "/v4/campaigns/count", allow404 |-> FALSE]

\* the methods that start with: if (!id) throw new Error("id is required")
IdRequired(t) == t \in {"opportunities-get", "opportunities-campaigns", "campaigns-get"}

\* the path parameter of the call: the id, the aggregated field, or none
PathParam(t, a) ==
    IF IdRequired(t) THEN Get(a, "id").s
    ELSE IF t \in AggregateTools THEN Get(a, "field").s
    ELSE <<>>

\* the GET request fetchJson hands to fetchFn
Request(c, t, a) ==
    [path |-> Method(t).path, param |-> encodeURIComponent(PathParam(t, a)),
     query |-> toQuery(HandlerQuery(t, a)), headers |-> headers(c),
     allow404 |-> Method(t).allow404]

\* node-fetch: Response.ok
ok(res) == res.status >= 200 /\ res.status <= 299

\* a variant of fetchJsonOnResponse whose allow404 covers every 4xx status
fetchJsonOnResponseAny4xx(allow404, res) ==
    IF allow404 /\ res.status \in 400..499 THEN [do |-> "null"]
    ELSE IF ~ok(res)
         THEN [do |-> "throw",
               error |-> [name |-> "Error", text |-> "Merkl request failed",
                          status |-> res.status, statusText |-> res.statusText]]
         ELSE [do |-> "json"]

\* fetchJson once fetchFn has resolved with res (lines 116-120): "null" for
\* the allowed 404, "throw" for a status error, "json" for return res.json()
fetchJsonOnResponse(allow404, res) ==
    IF allow404 /\ res.status = 404 THEN [do |-> "null"]
    ELSE IF ~ok(res)
         THEN [do |-> "throw",
               error |-> [name |-> "Error", text |-> "Merkl request failed",
                          status |-> res.status, statusText |-> res.statusText]]
         ELSE [do |-> "json"]

\* a variant of fetchJsonOnError that reports the default duration
fetchJsonOnErrorDefault(c, err) ==
    IF err.name = "AbortError"
    THEN [name |-> "Error", text |-> "Merkl request timed out after", ms |-> DefaultTimeoutMs]
    ELSE err

\* a variant of fetchJsonOnError that reports every caught error as a timeout
fetchJsonOnErrorAlways(c, err) ==
    [name |-> "Error", text |-> "Merkl request timed out after", ms |-> c.timeoutMs]

\* the catch block (lines 121-125) for the caught error err
fetchJsonOnError(c, err) ==
    IF err.name = "AbortError"
    THEN [name |-> "Error", text |-> "Merkl request timed out after", ms |-> c.timeoutMs]
    ELSE err

\* setTimeout(() => controller.abort(), this.timeoutMs)
setTimeout(c) == [delay |-> c.timeoutMs, fired |-> FALSE, cleared |-> FALSE]

pending(tm) == ~tm.fired /\ ~tm.cleared

\* clearTimeout(timer)
clearTimeout(tm) == [tm EXCEPT !.cleared = TRUE]

\* a variant of finally that leaves the timer alone
finallyNoClear(tms) == tms

\* the finally block: the timer this fetchJson call created is cleared
finally(tms) == [tms EXCEPT ![Len(tms)] = clearTimeout(tms[Len(tms)])]

(***************************************************************************)
(* The inputs the model draws: environments, tool inputs, upstream data.   *)
(***************************************************************************)
TickMs == 500

Calls == 1..NumCalls

SeqsUpTo(S, n) == UNION {[1..k -> S] : k \in 0..n}

\* an optional entry of an object: absent, or present with a value of V
Opt(k, V) == {<<>>} \cup {<<<<k, v>>>> : v \in V}

Envs ==
    {[MERKL_TIMEOUT_MS |-> v, MERKL_API_KEY |-> Undefined] :
        v \in {Undefined, Str(<<"5", "0", "0", "0">>)}}

\* new MerklClient({}) at server.ts line 18
ServerOpts == [apiKey |-> Undefined, timeoutMs |-> Undefined]

Responses ==
    {[status |-> 200, statusText |-> "OK"],
     [status |-> 204, statusText |-> "No Content"],
     [status |-> 304, statusText |-> "Not Modified"],
     [status |-> 403, statusText |-> "Forbidden"],
     [status |-> 404, statusText |-> "Not Found"],
     [status |-> 500, statusText |-> "Internal Server Error"]}

TransportErrors == {[name |-> "FetchError", text |-> "ECONNREFUSED"]}

Epochs == {Num(e) : e \in 0..MaxEpoch}

\* the campaigns nested in an upstream opportunity
SubCampaigns ==
    {[id |-> "7", campaignId |-> "0xc7", type |-> "ERC20",
      startTimestamp |-> Num(0), endTimestamp |-> e] : e \in Epochs}

Opportunities ==
    {[id |-> "11", name |-> "pool", type |-> "CLAMM", identifier |-> "0xaa",
      chain |-> [name |-> <<"B", "a", "s", "e">>], campaigns |-> cs] :
        cs \in SeqsUpTo(SubCampaigns, MaxRows)}

\* an upstream opportunity fetched without its campaigns
NoCampaignsOpportunity ==
    [id |-> "12", name |-> "vault", type |-> "ERC20", identifier |-> "0xbb",
     chain |-> [name |-> <<"A", "r", "b", " ", "O", "n", "e">>]]

CampaignParams == {[targetToken |-> Str(<<"t">>)], [poolAddress |-> Str(<<"p">>)],
                   [targetToken |-> Null, poolAddress |-> Str(<<"p">>)]}

Campaigns ==
    {[id |-> "7", campaignId |-> "0xc7", type |-> ty,
      startTimestamp |-> Num(0), endTimestamp |-> Num(MaxEpoch),
      chain |-> [name |-> <<"A", "r", "b", " ", " ", "O", "n", "e">>], params |-> p] :
        ty \in {"ERC20", "INVALID"}, p \in CampaignParams}
    \cup {[id |-> "8", campaignId |-> "0xc8", type |-> "ERC20",
           startTimestamp |-> Num(0), endTimestamp |-> Num(MaxEpoch),
           chain |-> [name |-> <<"A", "r", "b", " ", " ", "O", "n", "e">>],
           params |-> [targetToken |-> Str(<<"t">>)]]}
    \cup {[id |-> "9", campaignId |-> "0xc9", type |-> "ERC20",
           startTimestamp |-> Num(0), endTimestamp |-> Num(MaxEpoch)]}

\* upstream rows that carry the start and end both as startTimestamp /
\* endTimestamp and as startTime / endTime
DatedSubCampaign ==
    [id |-> "7", campaignId |-> "0xc7", type |-> "ERC20", name |-> "c",
     startTimestamp |-> Num(0), endTimestamp |-> Num(MaxEpoch),
     startTime |-> Num(1), endTime |-> Num(MaxEpoch)]

DatedOpportunity ==
    [id |-> "11", name |-> "pool", type |-> "CLAMM", identifier |-> "0xaa",
     chain |-> [name |-> <<"B", "a", "s", "e">>], campaigns |-> <<DatedSubCampaign>>]

\* a dated campaign that ended at the epoch
EndedSubCampaign ==
    [id |-> "6", campaignId |-> "0xc6", type |-> "ERC20", name |-> "e",
     startTimestamp |-> Num(0), endTimestamp |-> Num(0),
     startTime |-> Num(0), endTime |-> Num(0)]

\* an upstream opportunity with an ended campaign before a running one
MixedOpportunity ==
    [id |-> "13", name |-> "farm", type |-> "CLAMM", identifier |-> "0xcc",
     chain |-> [name |-> <<"B", "a", "s", "e">>],
     campaigns |-> <<EndedSubCampaign, DatedSubCampaign>>]

DatedCampaign ==
    [id |-> "7", campaignId |-> "0xc7", type |-> "ERC20",
     startTimestamp |-> Num(0), endTimestamp |-> Num(MaxEpoch),
     startTime |-> Num(1), endTime |-> Num(MaxEpoch),
     chain |-> [name |-> <<"B", "a", "s", "e">>], params |-> [targetToken |-> Str(<<"t">>)]]

\* the JSON bodies an upstream endpoint may answer with
Bodies(t) ==
    CASE t = "opportunities-search" ->
            {<<>>} \cup {<<o>> : o \in Opportunities}
                   \cup {<<o, NoCampaignsOpportunity>> : o \in Opportunities}
      [] t \in {"opportunities-get", "opportunities-campaigns"} ->
            Opportunities \cup {DatedOpportunity, MixedOpportunity}
      [] t = "campaigns-search" -> SeqsUpTo(Campaigns, MaxRows)
      [] t = "campaigns-get" -> Campaigns \cup {DatedCampaign}
      [] t \in {"opportunities-count", "campaigns-count"} -> {Num(0), Num(3)}
      [] t \in {"opportunities-bins-apr", "opportunities-bins-tvl"} ->
            SeqsUpTo({[label |-> "0-10", count |-> 3]}, 1)
      [] t = "opportunities-aggregate" -> SeqsUpTo({[value |-> "CLAMM", count |-> 3]}, 1)
      [] t \in {"opportunities-aggregate-max", "opportunities-aggregate-min"} ->
            {Null, Num(3)}
      [] OTHER -> {}

Ids == {Str(<<"1">>), Str(<<"x">>), Str(<<"x", "1">>), Str(<<"-", "-", "0", "x">>)}

\* the input objects a caller hands to a tool, keys in schema order
Inputs(t) ==
    CASE t = "opportunities-search" ->
            {a \o b \o c : a \in Opt("items", {Num(0), Num(50)}),
                           b \in Opt("campaigns", {Bool(FALSE)}),
                           c \in Opt("excludeEndedCampaigns", {Bool(TRUE), Bool(FALSE)})}
            \cup {<<<<"name", Str(<<>>)>>>> \o c :
                        c \in Opt("excludeEndedCampaigns", {Bool(FALSE)})}
      [] t \in {"opportunities-get", "opportunities-campaigns", "campaigns-get"} ->
            {a \o b : a \in Opt("id", Ids), b \in Opt("test", {Bool(TRUE)})}
      [] t = "campaigns-search" ->
            {a \o b : a \in Opt("items", {Num(1), Num(101)}),
                      b \in Opt("action", {Str(<<"I", "N", "V", "A", "L", "I", "D">>)})}
      [] t \in AggregateTools ->
            {a \o b : a \in Opt("field", {Str(<<"a", "p", "r">>)}),
                      b \in Opt("test", {Bool(TRUE)})}
      [] t = "get-current-timestamp" -> {<<>>}
      [] OTHER -> Opt("test", {Bool(TRUE)})

(***************************************************************************)
(* The CLI launcher (bin): build when dist is missing, then run the server. *)
(***************************************************************************)
\* the exit codes a child reports to its exit listener: a number, or null
\* when the child was ended by a signal
ExitCodes == {Num(c) : c \in 0..MaxExitCode} \cup {Null}

\* the launcher before its first statement; dist is existsSync(distServer)
Launching(dist) ==
    [pc |-> "start", dist |-> dist, build |-> "none", buildCode |-> Undefined,
     spawned |-> 0, exit |-> Undefined]

\* the server process is running, started by a launcher that found dist
Served ==
    [pc |-> "serving", dist |-> TRUE, build |-> "none", buildCode |-> Undefined,
     spawned |-> 1, exit |-> Undefined]

\* run(): spawn the server process
run(l) == [l EXCEPT !.pc = "serving", !.spawned = @ + 1]

\* process.exit(code)
exit(l, code) == [l EXCEPT !.pc = "exited", !.exit = code]

\* a ?? b
orElse(a, b) == IF a \in {Null, Undefined} THEN b ELSE a

\* lines 12-24: spawn the build when dist is missing, else run()
Launch ==
    /\ launcher.pc = "start"
    /\ launcher' = IF ~launcher.dist
                   THEN [launcher EXCEPT !.pc = "building", !.build = "running"]
                   ELSE run(launcher)

\* a variant of BuildExited that runs the server whatever the build's code
BuildExitedRunAnyway(code) ==
    /\ launcher.pc = "building"
    /\ launcher' = run([launcher EXCEPT !.build = "exited", !.buildCode = code])

\* the build's exit listener, lines 18-21
BuildExited(code) ==
    /\ launcher.pc = "building"
    /\ LET l == [launcher EXCEPT !.build = "exited", !.buildCode = code]
       IN launcher' = IF code # Num(0) THEN exit(l, orElse(code, Num(1))) ELSE run(l)

\* the server's exit listener, line 32
ServerExited(code) ==
    /\ launcher.pc = "serving"
    /\ launcher' = exit(launcher, orElse(code, Num(0)))

(***************************************************************************)
(* The tool invocations.                                                   *)
(***************************************************************************)
\* the tool call ends with outcome o
Settle(i, o) ==
    /\ pc' = [pc EXCEPT ![i] = "done"]
    /\ outcome' = [outcome EXCEPT ![i] = o]
    /\ settledAt' = [settledAt EXCEPT ![i] = now]

\* a variant of Fail in which the handler answers a failed call with an
\* empty result
FailDegraded(i, e) ==
    /\ fetched' = [fetched EXCEPT ![i] = [kind |-> "error", error |-> e]]
    /\ Settle(i, Result(Null))

\* fetchJson threw e: the handler does not catch, the tool call fails with e
Fail(i, e) ==
    /\ fetched' = [fetched EXCEPT ![i] = [kind |-> "error", error |-> e]]
    /\ Settle(i, [kind |-> "error", error |-> e])

\* fetchJson resolved with data: the rest of the handler
Continue(i, data) ==
    /\ fetched' = [fetched EXCEPT ![i] = Result(data)]
    /\ Settle(i, Handler(tool[i], args[i], data, now))

\* the host invokes tool t with input a: validation, then the handler up to
\* its await of the client call, which runs fetchJson up to its await of
\* fetchFn
Invoke(i, t, a) ==
    /\ pc[i] = "idle"
    /\ tool' = [tool EXCEPT ![i] = t]
    /\ args' = [args EXCEPT ![i] = a]
    /\ IF ~Validate(t, a)
       THEN /\ Settle(i, Thrown("McpError", "Invalid arguments"))
            /\ UNCHANGED <<request, timer>>
       ELSE IF t = "get-current-timestamp"
       THEN /\ Settle(i, Result([timestamp |-> now]))
            /\ UNCHANGED <<request, timer>>
       ELSE IF IdRequired(t) /\ Len(Get(a, "id").s) = 0
       THEN /\ Settle(i, Thrown("Error", "id is required"))
            /\ UNCHANGED <<request, timer>>
       ELSE /\ pc' = [pc EXCEPT ![i] = "fetch"]
            /\ timer' = [timer EXCEPT ![i] = Append(@, setTimeout(client))]
            /\ request' = [request EXCEPT ![i] = Append(@, Request(client, t, a))]
            /\ UNCHANGED <<outcome, settledAt>>
    /\ UNCHANGED <<launcher, opts, env, client, now, signal, response, fetched, params, qs>>

\* a variant of TimerFire in which the calls share one AbortController
TimerFireShared(i) ==
    /\ \E k \in 1..Len(timer[i]) : pending(timer[i][k])
    /\ timer' = [timer EXCEPT ![i] =
                    [k \in 1..Len(@) |-> IF pending(@[k]) THEN [@[k] EXCEPT !.fired = TRUE]
                                         ELSE @[k]]]
    /\ signal' = [j \in Calls |-> signal[j] \/ j = i \/ pc[j] = "fetch"]
    /\ UNCHANGED <<launcher, opts, env, client, now, pc, tool, args, request, response, fetched,
                   outcome, settledAt, params, qs>>

\* the timer callback: controller.abort()
TimerFire(i) ==
    /\ \E k \in 1..Len(timer[i]) : pending(timer[i][k])
    /\ timer' = [timer EXCEPT ![i] =
                    [k \in 1..Len(@) |-> IF pending(@[k]) THEN [@[k] EXCEPT !.fired = TRUE]
                                         ELSE @[k]]]
    /\ signal' = [signal EXCEPT ![i] = TRUE]
    /\ UNCHANGED <<launcher, opts, env, client, now, pc, tool, args, request, response, fetched,
                   outcome, settledAt, params, qs>>

\* fetchFn rejects with an AbortError because the signal is aborted
FetchAbort(i) ==
    /\ pc[i] = "fetch"
    /\ signal[i]
    /\ Fail(i, fetchJsonOnError(client, [name |-> "AbortError",
                                          text |-> "The operation was aborted"]))
    /\ timer' = [timer EXCEPT ![i] = finally(@)]
    /\ UNCHANGED <<launcher, opts, env, client, now, tool, args, request, signal, response, params, qs>>

\* fetchFn rejects with a transport error
FetchFail(i, err) ==
    /\ pc[i] = "fetch"
    /\ ~signal[i]
    /\ Fail(i, fetchJsonOnError(client, err))
    /\ timer' = [timer EXCEPT ![i] = finally(@)]
    /\ UNCHANGED <<launcher, opts, env, client, now, tool, args, request, signal, response, params, qs>>

\* a variant of FetchRespond that retries a failed request once
FetchRespondRetry(i, res) ==
    /\ pc[i] = "fetch"
    /\ ~signal[i]
    /\ LET r == fetchJsonOnResponse(request[i][Len(request[i])].allow404, res)
       IN CASE r.do = "null" ->
                 /\ Continue(i, Null)
                 /\ timer' = [timer EXCEPT ![i] = finally(@)]
                 /\ UNCHANGED request
            [] r.do = "throw" /\ Len(request[i]) = 1 ->
                 /\ request' = [request EXCEPT ![i] = Append(@, @[1])]
                 /\ timer' = [timer EXCEPT ![i] = Append(finally(@), setTimeout(client))]
                 /\ UNCHANGED <<pc, fetched, outcome, settledAt>>
            [] r.do = "throw" /\ Len(request[i]) # 1 ->
                 /\ Fail(i, r.error)
                 /\ timer' = [timer EXCEPT ![i] = finally(@)]
                 /\ UNCHANGED request
            [] r.do = "json" ->
                 /\ pc' = [pc EXCEPT ![i] = "json"]
                 /\ timer' = [timer EXCEPT ![i] = finally(@)]
                 /\ UNCHANGED <<request, fetched, outcome, settledAt>>
    /\ response' = [response EXCEPT ![i] = res]
    /\ UNCHANGED <<launcher, opts, env, client, now, tool, args, signal, params, qs>>

\* fetchFn resolves with the response res: the rest of fetchJson (a status
\* error thrown in the try block passes through the catch block), and for an
\* allowed 404 the rest of the handler
FetchRespond(i, res) ==
    /\ pc[i] = "fetch"
    /\ ~signal[i]
    /\ LET r == fetchJsonOnResponse(request[i][Len(request[i])].allow404, res)
       IN CASE r.do = "null" -> Continue(i, Null)
            [] r.do = "throw" -> Fail(i, fetchJsonOnError(client, r.error))
            [] r.do = "json" -> /\ pc' = [pc EXCEPT ![i] = "json"]
                                /\ UNCHANGED <<fetched, outcome, settledAt>>
    /\ response' = [response EXCEPT ![i] = res]
    /\ timer' = [timer EXCEPT ![i] = finally(@)]
    /\ UNCHANGED <<launcher, opts, env, client, now, tool, args, request, signal, params, qs>>

\* res.json() resolves with the parsed body: the rest of the handler
JsonResolve(i, data) ==
    /\ pc[i] = "json"
    /\ Continue(i, data)
    /\ response' = [response EXCEPT ![i] = [status |-> @.status,
                                             statusText |-> @.statusText, body |-> data]]
    /\ UNCHANGED <<launcher, opts, env, client, now, tool, args, request, timer, signal, params, qs>>

\* res.json() rejects: the body is not JSON
JsonReject(i) ==
    /\ pc[i] = "json"
    /\ Fail(i, [name |-> "FetchError", text |-> "invalid json response body"])
    /\ UNCHANGED <<launcher, opts, env, client, now, tool, args, request, timer, signal, response,
                   params, qs>>

\* time passes
Tick ==
    /\ now < MaxTicks * TickMs
    /\ now' = now + TickMs
    /\ UNCHANGED <<launcher, opts, env, client, pc, tool, args, request, timer, signal, response,
                   fetched, outcome, settledAt, params, qs>>

NotRun == <<"not run">>

NoResponse == [status |-> 0, statusText |-> "none"]

Idle ==
    /\ pc = [i \in Calls |-> "idle"]
    /\ tool = [i \in Calls |-> "none"]
    /\ args = [i \in Calls |-> <<>>]
    /\ request = [i \in Calls |-> <<>>]
    /\ timer = [i \in Calls |-> <<>>]
    /\ signal = [i \in Calls |-> FALSE]
    /\ response = [i \in Calls |-> NoResponse]
    /\ fetched = [i \in Calls |-> NoOutcome]
    /\ outcome = [i \in Calls |-> NoOutcome]
    /\ settledAt = [i \in Calls |-> 0]

Init ==
    /\ env \in Envs
    /\ launcher = Served
    /\ opts = ServerOpts
    /\ client = MerklClient(opts, env)
    /\ now = 0
    /\ Idle
    /\ params = <<>>
    /\ qs = NotRun

\* one invocation at a time, every tool, every input
Next ==
    \/ pc[1] = "idle" /\ \E t \in Tools : \E a \in Inputs(t) : Invoke(1, t, a)
    \/ TimerFire(1)
    \/ FetchAbort(1)
    \/ \E err \in TransportErrors : FetchFail(1, err)
    \/ \E res \in Responses : FetchRespond(1, res)
    \/ pc[1] = "json" /\ \E data \in Bodies(tool[1]) : JsonResolve(1, data)
    \/ JsonReject(1)
    \/ Tick

Spec == Init /\ [][Next]_vars

\* the same steps under the scheduling the runtime gives: a pending timer's
\* callback is eventually run, and a fetch whose signal is aborted eventually
\* rejects; nothing obliges the upstream to answer or to end a body
SpecLive ==
    Init /\ [][Next]_vars /\ WF_vars(TimerFire(1)) /\ WF_vars(FetchAbort(1))

(***************************************************************************)
(* The id patterns on every id string of a small alphabet: one invocation  *)
(* of a tool that takes an id.                                             *)
(***************************************************************************)
IdAlphabet == {"0", "1", "x", "-", "A"}

IdStrings == SeqsUpTo(IdAlphabet, MaxIdLen)

IdTools == {"opportunities-get", "opportunities-campaigns", "campaigns-get"}

InitId ==
    /\ env = [MERKL_TIMEOUT_MS |-> Undefined, MERKL_API_KEY |-> Undefined]
    /\ launcher = Served
    /\ opts = ServerOpts
    /\ client = MerklClient(opts, env)
    /\ now = 0
    /\ Idle
    /\ params = <<>>
    /\ qs = NotRun

NextId ==
    \/ pc[1] = "idle"
       /\ \E t \in IdTools : \E s \in IdStrings : Invoke(1, t, <<<<"id", Str(s)>>>>)
    \/ TimerFire(1)
    \/ FetchAbort(1)
    \/ \E res \in {r \in Responses : r.status \in {200, 404}} : FetchRespond(1, res)
    \/ pc[1] = "json"
       /\ \E data \in {d \in Bodies(tool[1]) : ListProp(d, "campaigns") = <<>>} :
              JsonResolve(1, data)
    \/ tool[1] = "opportunities-get"
       /\ Invoke(2, "opportunities-campaigns", args[1])

SpecId == InitId /\ [][NextId]_vars

(***************************************************************************)
(* Concurrent invocations on the shared client.                            *)
(***************************************************************************)
ConcurrentInputs ==
    {<<"opportunities-get", <<<<"id", Str(<<"1">>)>>>>>>,
     <<"opportunities-count", <<>>>>,
     <<"campaigns-search", <<>>>>}

ConcurrentBodies(t) ==
    {d \in Bodies(t) :
        \/ t = "opportunities-count" /\ d = Num(3)
        \/ t = "opportunities-get" /\ ListProp(d, "campaigns") = <<>>
        \/ t = "campaigns-search" /\ Len(d) = 0}

NextConcurrent ==
    \E i \in Calls :
        \/ \E c \in ConcurrentInputs : Invoke(i, c[1], c[2])
        \/ TimerFire(i)
        \/ FetchAbort(i)
        \/ \E err \in TransportErrors : FetchFail(i, err)
        \/ \E res \in {r \in Responses : r.status \in {200, 404, 500}} : FetchRespond(i, res)
        \/ pc[i] = "json" /\ \E data \in ConcurrentBodies(tool[i]) : JsonResolve(i, data)
        \/ JsonReject(i)

SpecConcurrent == Init /\ [][NextConcurrent]_vars

(***************************************************************************)
(* The launcher with the server it starts.                                 *)
(***************************************************************************)
InitLauncher ==
    /\ launcher \in {Launching(d) : d \in BOOLEAN}
    /\ opts = ServerOpts
    /\ env \in Envs
    /\ client = MerklClient(opts, env)
    /\ now = 0
    /\ Idle
    /\ params = <<>>
    /\ qs = NotRun

LauncherFrame ==
    UNCHANGED <<opts, env, client, now, pc, tool, args, request, timer, signal,
                response, fetched, outcome, settledAt, params, qs>>

\* the launcher's steps, and the server's handling of count calls while it
\* is running
NextLauncher ==
    \/ Launch /\ LauncherFrame
    \/ \E code \in ExitCodes : BuildExited(code) /\ LauncherFrame
    \/ \E code \in ExitCodes : ServerExited(code) /\ LauncherFrame
    \/ /\ launcher.pc = "serving"
       /\ \/ \E t \in {"get-current-timestamp", "opportunities-count"} : Invoke(1, t, <<>>)
          \/ TimerFire(1)
          \/ FetchAbort(1)
          \/ \E res \in {r \in Responses : r.status \in {200, 500}} : FetchRespond(1, res)
          \/ \E data \in Bodies("opportunities-count") : JsonResolve(1, data)

SpecLauncher == InitLauncher /\ [][NextLauncher]_vars

(***************************************************************************)
(* Client configuration: constructor options and environment.              *)
(***************************************************************************)
ClientOpts ==
    {[apiKey |-> k, timeoutMs |-> t] :
        k \in {Undefined, Str(<<>>), Str(<<"o">>)},
        t \in {Undefined, NaN, Num(7000)}}

ConfigEnvs ==
    {[MERKL_TIMEOUT_MS |-> v, MERKL_API_KEY |-> k] :
        v \in {Undefined, Str(<<>>), Str(<<"5", "0", "0", "0">>), Str(<<"x">>)},
        k \in {Undefined, Str(<<>>), Str(<<"e">>)}}

InitConfig ==
    /\ launcher = Served
    /\ opts \in ClientOpts
    /\ env \in ConfigEnvs
    /\ client = MerklClient(opts, env)
    /\ now = 0
    /\ Idle
    /\ params = <<>>
    /\ qs = NotRun

\* count requests on a client built from any options and environment
NextConfig ==
    \E i \in Calls :
        \/ Invoke(i, "opportunities-count", <<>>)
        \/ TimerFire(i)
        \/ FetchAbort(i)
        \/ \E res \in {r \in Responses : r.status \in {200, 500}} : FetchRespond(i, res)
        \/ JsonResolve(i, Num(3))

SpecConfig == InitConfig /\ [][NextConfig]_vars

(***************************************************************************)
(* The query codec on bounded filter objects.                              *)
(***************************************************************************)
QueryKeys == {"k1", "k2", "k3"}

ListElements == {Str(<<>>), Str(<<"A">>)}

FilterValues ==
    {Undefined, Null, Str(<<>>), Str(<<"A">>), Str(<<"A", ",", "A">>), Num(0), Bool(FALSE)}
    \cup {Arr(l) : l \in SeqsUpTo(ListElements, MaxListLen)}

\* objects of at most MaxKeys entries with distinct keys, in any key order
FilterObjects ==
    {o \in SeqsUpTo(QueryKeys \X FilterValues, MaxKeys) :
        \A i, j \in 1..Len(o) : i # j => o[i][1] # o[j][1]}

InitQuery ==
    /\ env = [MERKL_TIMEOUT_MS |-> Undefined, MERKL_API_KEY |-> Undefined]
    /\ launcher = Served
    /\ opts = ServerOpts
    /\ client = MerklClient(opts, env)
    /\ now = 0
    /\ Idle
    /\ params \in FilterObjects
    /\ qs = NotRun

\* toQuery(params) is called
Encode ==
    /\ qs = NotRun
    /\ qs' = toQuery(params)
    /\ UNCHANGED <<launcher, opts, env, client, now, pc, tool, args, request, timer, signal, response,
                   fetched, outcome, settledAt, params>>

NextQuery == Encode

SpecQuery == InitQuery /\ [][NextQuery]_vars

(***************************************************************************)
(* Properties.                                                             *)
(***************************************************************************)
Rejected(i) ==
    pc[i] = "done" /\ outcome[i].kind = "error" /\ outcome[i].error.name = "McpError"

TimedOut(i) ==
    /\ pc[i] = "done"
    /\ fetched[i].kind = "error"
    /\ "ms" \in DOMAIN fetched[i].error
    /\ fetched[i].error.text = "Merkl request timed out after"

Fired(i) == \E k \in 1..Len(timer[i]) : timer[i][k].fired

\* C1: a single-entity lookup (opportunities-get, opportunities-campaigns,
\* campaigns-get) whose upstream answers 404 completes with the not-found
\* sentinel, a null opportunity or campaign, and not with an error.
C1_NotFoundSentinel ==
    \A i \in Calls :
        pc[i] = "done" /\ tool[i] \in IdTools /\ response[i].status = 404
        => /\ outcome[i].kind = "result"
           /\ outcome[i].value \in {[opportunity |-> Null], [campaign |-> Null]}

\* the two id shapes of C2, each matched against the whole string
C2_WellFormed(s) == CompositeId(s, 0) \/ DigitRun(s, 1, MaxIdDigits)

\* C2: an opportunities-get invocation whose id is neither
\* <int>-<UPPERCASE_ALNUM>-0x<hex> nor a decimal integer of 1 to 20 digits
\* fails validation, and no upstream request is issued for it.
C2_MalformedIdFailsFast ==
    \A i \in Calls :
        /\ tool[i] = "opportunities-get"
        /\ pc[i] # "idle"
        /\ ~C2_WellFormed(Get(args[i], "id").s)
        => Rejected(i) /\ request[i] = <<>>

C3_Empty == {Undefined, Null, Str(<<>>), Arr(<<>>)}

\* C3: the query string toQuery builds holds no key with an empty value, and
\* the keys whose value is undefined, null, "" or an empty list are not in it.
C3_NoEmptyValue ==
    qs # NotRun
    => /\ \A k \in 1..Len(qs) : qs[k] = "=" => k < Len(qs) /\ qs[k + 1] # "&"
       /\ \A e \in 1..Len(params) :
              params[e][2] \in C3_Empty => \A k \in 1..Len(qs) : qs[k] # params[e][1]

\* C4 as stated: every invocation that passes validation issues exactly one
\* upstream request.
C4_EveryValidInvocationFetches ==
    \A i \in Calls : pc[i] # "idle" /\ ~Rejected(i) => Len(request[i]) = 1

\* C4: every invocation of a tool other than get-current-timestamp that
\* passes validation issues exactly one upstream request whatever the
\* outcome, and never a second one; get-current-timestamp and a rejected
\* invocation issue none.
C4_OneRequestPerUpstreamTool ==
    \A i \in Calls :
        pc[i] # "idle"
        => Len(request[i]) =
              IF Rejected(i) \/ tool[i] = "get-current-timestamp" THEN 0 ELSE 1

C4_Witness ==
    \E i \in Calls :
        /\ pc[i] = "done"
        /\ response[i].status = 500
        /\ outcome[i].kind = "error"
        /\ Len(request[i]) = 1

\* C5: fetchJson settles a non-2xx response with an error carrying the status
\* code and status text, except that with allow404 a 404 gives null; with
\* allow404 any other non-2xx status still fails.
C5_StatusErrors ==
    \A i \in Calls :
        response[i].status # 0
        => IF request[i][1].allow404 /\ response[i].status = 404
           THEN fetched[i].kind = "result" /\ fetched[i].value = Null
           ELSE IF response[i].status \notin 200..299
           THEN /\ fetched[i].kind = "error"
                /\ "status" \in DOMAIN fetched[i].error
                /\ fetched[i].error.status = response[i].status
                /\ fetched[i].error.statusText = response[i].statusText
                /\ outcome[i] = fetched[i]
           ELSE TRUE

C5_Witness ==
    \E i \in Calls :
        /\ pc[i] = "done"
        /\ Len(request[i]) = 1
        /\ request[i][1].allow404
        /\ response[i].status = 403
        /\ fetched[i].kind = "error"
        /\ fetched[i].error.status = 403

\* C6: when the timer fires before the upstream has responded the request is
\* aborted and fetchJson fails with the timeout error, which carries the
\* client's configured timeout in milliseconds.
C6_TimeoutError ==
    \A i \in Calls :
        Fired(i)
        => /\ signal[i]
           /\ response[i].status = 0
           /\ pc[i] \in {"fetch", "done"}
           /\ pc[i] = "done"
              => /\ TimedOut(i)
                 /\ fetched[i].error.ms = client.timeoutMs
                 /\ fetched[i].error.ms = timer[i][1].delay
                 /\ outcome[i] = fetched[i]

C6_Witness ==
    \E i \in Calls :
        Fired(i) /\ TimedOut(i) /\ fetched[i].error.ms # DefaultTimeoutMs

\* C7: a fetchJson call creates exactly one timer, and once the call has
\* completed, on any path, that timer is cleared: no timer is left pending.
C7_TimerReleased ==
    \A i \in Calls :
        /\ Len(timer[i]) = Len(request[i])
        /\ Len(timer[i]) <= 1
        /\ pc[i] \in {"json", "done"} => \A k \in 1..Len(timer[i]) : timer[i][k].cleared

C7_Witness ==
    \E i \in Calls :
        /\ pc[i] = "done"
        /\ Len(timer[i]) = 1
        /\ timer[i][1].cleared
        /\ ~timer[i][1].fired
        /\ outcome[i].kind = "result"

CallState(i) ==
    <<pc[i], tool[i], args[i], request[i], timer[i], signal[i], response[i],
      fetched[i], outcome[i], settledAt[i]>>

\* C8: concurrent invocations each have their own timer and abort signal: a
\* step of one invocation (its timeout, failure or completion) changes
\* nothing of another, and an invocation is aborted only by its own timer.
C8_Independent ==
    /\ [](\A i \in Calls : signal[i] = Fired(i))
    /\ [][\A i, j \in Calls :
              i # j /\ CallState(i)' # CallState(i) => CallState(j)' = CallState(j)]_vars

C8_Witness ==
    \E i, j \in Calls :
        /\ i # j
        /\ TimedOut(i)
        /\ pc[j] = "done"
        /\ outcome[j].kind = "result"

\* C9: the results of campaigns-search hold no row of type "INVALID", and
\* hold every upstream row of another type, in upstream order.
C9_InvalidRowsDropped ==
    \A i \in Calls :
        tool[i] = "campaigns-search" /\ pc[i] = "done" /\ outcome[i].kind = "result"
        => LET out == outcome[i].value.results
               kept == SelectSeq(response[i].body, LAMBDA c : c.type # "INVALID")
           IN /\ \A k \in 1..Len(out) : out[k].type # "INVALID"
              /\ Len(out) = Len(kept)
              /\ \A k \in 1..Len(out) :
                     out[k].id = kept[k].id /\ out[k].type = kept[k].type

C9_Witness ==
    \E i \in Calls :
        /\ tool[i] = "campaigns-search"
        /\ pc[i] = "done"
        /\ outcome[i].kind = "result"
        /\ has(args[i], "action")
        /\ Len(response[i].body) = 2
        /\ response[i].body[1].type = "INVALID"
        /\ response[i].body[2].type = "ERC20"
        /\ Len(outcome[i].value.results) = 1

C10_Ends(l) == [k \in 1..Len(l) |-> l[k].endTimestamp]

\* C10: in opportunities-search an upstream campaign is in its opportunity's
\* output sub-list exactly when its endTimestamp is >= the current time in
\* epoch seconds or excludeEndedCampaigns is false; an omitted
\* excludeEndedCampaigns behaves as true.
C10_EndedCampaignsFiltered ==
    \A i \in Calls :
        tool[i] = "opportunities-search" /\ pc[i] = "done" /\ outcome[i].kind = "result"
        => LET out == outcome[i].value.results
               rows == response[i].body
               flag == IF has(args[i], "excludeEndedCampaigns")
                       THEN Get(args[i], "excludeEndedCampaigns").b ELSE TRUE
           IN /\ Len(out) = Len(rows)
              /\ \A k \in 1..Len(out) :
                     C10_Ends(out[k].campaigns) =
                        SelectSeq(C10_Ends(ListProp(rows[k], "campaigns")),
                                  LAMBDA e : e.n * 1000 >= settledAt[i] \/ ~flag)

C10_Witness ==
    \E i \in Calls :
        /\ tool[i] = "opportunities-search"
        /\ pc[i] = "done"
        /\ outcome[i].kind = "result"
        /\ ~has(args[i], "excludeEndedCampaigns")
        /\ Len(response[i].body) = 1
        /\ Len(response[i].body[1].campaigns) = 2
        /\ response[i].body[1].campaigns[1].endTimestamp.n * 1000 < settledAt[i]
        /\ response[i].body[1].campaigns[2].endTimestamp.n * 1000 >= settledAt[i]
        /\ C10_Ends(outcome[i].value.results[1].campaigns)
              = <<response[i].body[1].campaigns[2].endTimestamp>>

\* the value a query string carries for key k: the characters between "k="
\* and the next "&"
QueryHas(q, k) == \E p \in 1..Len(q) : q[p] = k

QueryValue(q, k) ==
    LET p == CHOOSE p \in 1..Len(q) : q[p] = k
        e == CHOOSE e \in (p + 2)..(Len(q) + 1) :
                 /\ e = Len(q) + 1 \/ q[e] = "&"
                 /\ \A j \in (p + 2)..(e - 1) : q[j] # "&"
    IN SubSeq(q, p + 2, e - 1)

C13_NonEmpty(o) == SelectSeq(o, LAMBDA e : e[2] \notin C3_Empty)

\* C13: the keys of the query string toQuery builds are exactly the keys of
\* the filter object whose value is not undefined, null, "" or an empty list,
\* each once, in the object's key order.
C13_KeysInOrder ==
    qs # NotRun
    => SelectSeq(qs, LAMBDA x : x \in QueryKeys) =
          [i \in 1..Len(C13_NonEmpty(params)) |-> C13_NonEmpty(params)[i][1]]

C13_Witness ==
    /\ qs # NotRun
    /\ Len(params) = 2
    /\ params[1][1] = "k2"
    /\ params[2][1] = "k1"
    /\ params[1][2] = Num(0)
    /\ params[2][2] = Str(<<"A">>)
    /\ qs = <<"?", "k2", "=", "0", "&", "k1", "=", "A">>

\* C14: for a key k and a non-empty list of scalars L, toQuery({k: L}) is
\* toQuery({k: s}) where s is the elements of L joined with ",".
C14_ListAsJoined ==
    /\ qs # NotRun
    /\ Len(params) = 1
    /\ IsArr(params[1][2])
    /\ Len(params[1][2].l) > 0
    => qs = toQuery(<<<<params[1][1], Str(join(params[1][2].l, <<",">>))>>>>)

\* C15: toQuery encodes 0 as "0" and false as "false", the key being present,
\* and omits the key of an empty string.
C15_FalsyScalars ==
    qs # NotRun
    => \A e \in 1..Len(params) :
          /\ params[e][2] = Num(0)
             => QueryHas(qs, params[e][1]) /\ QueryValue(qs, params[e][1]) = <<"0">>
          /\ params[e][2] = Bool(FALSE)
             => /\ QueryHas(qs, params[e][1])
                /\ QueryValue(qs, params[e][1]) = <<"f", "a", "l", "s", "e">>
          /\ params[e][2] = Str(<<>>) => ~QueryHas(qs, params[e][1])

C15_Witness ==
    /\ qs # NotRun
    /\ Len(params) = 2
    /\ params[1][2] = Bool(FALSE)
    /\ params[2][2] = Str(<<>>)
    /\ qs = <<"?", params[1][1], "=", "f", "a", "l", "s", "e">>

C16_Decimal(s) == Len(s) >= 1 /\ \A k \in 1..Len(s) : s[k] \in Digit

\* C16: campaigns-get accepts an id exactly when it is a non-empty string of
\* decimal digits; for every other id the invocation fails validation and no
\* upstream request is issued.
C16_CampaignIdDecimal ==
    \A i \in Calls :
        tool[i] = "campaigns-get" /\ pc[i] # "idle"
        => IF C16_Decimal(Get(args[i], "id").s)
           THEN ~Rejected(i) /\ Len(request[i]) = 1
           ELSE Rejected(i) /\ request[i] = <<>>

C16_Witness ==
    \E i \in Calls :
        /\ tool[i] = "campaigns-get"
        /\ Get(args[i], "id") = Str(<<"1", "x">>)
        /\ Rejected(i)
        /\ request[i] = <<>>

\* C17: opportunities-get and opportunities-campaigns accept the same id
\* strings: given one id, either both invocations fail validation or neither
\* does.
C17_SameIdPattern ==
    \A i, j \in Calls :
        /\ tool[i] = "opportunities-get"
        /\ tool[j] = "opportunities-campaigns"
        /\ pc[i] # "idle"
        /\ pc[j] # "idle"
        /\ args[i] = args[j]
        => (Rejected(i) <=> Rejected(j))

C18_Tools ==
    {"opportunities-search", "opportunities-get", "opportunities-campaigns",
     "campaigns-search", "campaigns-get"}

\* output campaign o renders the epoch seconds of upstream campaign c
C18_Rendered(o, c) ==
    /\ o.startTime = ToISOString(c.startTimestamp.n * 1000)
    /\ o.endTime = ToISOString(c.endTimestamp.n * 1000)

\* C18: in every tool that surfaces campaigns, each output startTime / endTime
\* is the ISO-8601 rendering of the upstream campaign's startTimestamp /
\* endTimestamp epoch seconds, the same upstream fields in every tool (so no
\* such tool fails to render the times of a row that carries them).
C18_TimesRendered ==
    \A i \in Calls :
        /\ pc[i] = "done"
        /\ tool[i] \in C18_Tools
        /\ response[i].status = 200
        /\ fetched[i].kind = "result"
        => LET up == response[i].body
               out == outcome[i].value
           IN /\ outcome[i].kind = "error" => outcome[i].error.name # "RangeError"
              /\ outcome[i].kind = "result" =>
                    CASE tool[i] = "opportunities-search" ->
                            \A k \in 1..Len(out.results) :
                                \A j \in 1..Len(out.results[k].campaigns) :
                                    \E m \in 1..Len(ListProp(up[k], "campaigns")) :
                                        /\ up[k].campaigns[m].id = out.results[k].campaigns[j].id
                                        /\ up[k].campaigns[m].endTimestamp
                                              = out.results[k].campaigns[j].endTimestamp
                                        /\ C18_Rendered(out.results[k].campaigns[j],
                                                        up[k].campaigns[m])
                      [] tool[i] = "campaigns-search" ->
                            \A j \in 1..Len(out.results) :
                                \E m \in 1..Len(up) :
                                    /\ up[m].id = out.results[j].id
                                    /\ C18_Rendered(out.results[j], up[m])
                      [] tool[i] \in {"opportunities-get", "opportunities-campaigns"} ->
                            \A j \in 1..Len(out.opportunity.campaigns.value) :
                                C18_Rendered(out.opportunity.campaigns.value[j],
                                             up.campaigns[j])
                      [] tool[i] = "campaigns-get" -> C18_Rendered(out.campaign, up)

\* C19: every structured result a tool returns satisfies the tool's declared
\* output schema; each campaign in the campaigns list of opportunities-get and
\* opportunities-campaigns carries id, campaignId, type, startTime, endTime.
C19_OutputSchema ==
    \A i \in Calls :
        pc[i] = "done" /\ outcome[i].kind = "result"
        => outputSchema(tool[i], outcome[i].value)

\* the upstream call of invocation i has failed: aborted by its timer, a
\* transport error, a status that is neither 2xx nor an allowed 404, or a
\* body that is not JSON
C20_UpstreamFailed(i) ==
    /\ pc[i] = "done"
    /\ Len(request[i]) = 1
    /\ \/ signal[i]
       \/ fetched[i].kind = "error"
       \/ /\ response[i].status # 0
          /\ response[i].status \notin 200..299
          /\ ~(request[i][1].allow404 /\ response[i].status = 404)

\* C20: an upstream failure of an invocation (timeout, transport error,
\* non-2xx status other than an allowed 404, malformed JSON body) ends the
\* invocation with that one error; no structured result is returned.
C20_FailurePropagates ==
    \A i \in Calls :
        C20_UpstreamFailed(i)
        => /\ outcome[i].kind = "error"
           /\ fetched[i].kind = "error"
           /\ outcome[i].error = fetched[i].error

C20_Witness ==
    \E i \in Calls :
        /\ C20_UpstreamFailed(i)
        /\ tool[i] = "opportunities-count"
        /\ response[i].status = 200
        /\ fetched[i].error.text = "invalid json response body"
        /\ outcome[i].kind = "error"

\* C21: only getOpportunity, getOpportunityCampaigns and getCampaign pass
\* allow404; for every list, count, bins and aggregate operation an upstream
\* 404 fails the invocation with the status error and never yields null.
C21_Allow404Only ==
    \A i \in Calls :
        Len(request[i]) = 1
        => /\ request[i][1].allow404 <=> tool[i] \in IdTools
           /\ pc[i] = "done" /\ response[i].status = 404 /\ tool[i] \notin IdTools
              => /\ fetched[i].kind = "error"
                 /\ fetched[i].error.status = 404
                 /\ outcome[i] = fetched[i]

C21_Witness ==
    \E i \in Calls :
        /\ tool[i] = "opportunities-aggregate-max"
        /\ pc[i] = "done"
        /\ response[i].status = 404
        /\ outcome[i].kind = "error"
        /\ outcome[i].error.status = 404

\* the API key the claims speak of: the explicit option, else MERKL_API_KEY
C22_Key == IF opts.apiKey \notin {Undefined, Null} THEN opts.apiKey ELSE env.MERKL_API_KEY

\* C22: every upstream request carries the header Authorization: Bearer <key>
\* exactly when a non-empty API key is configured (the explicit option, else
\* MERKL_API_KEY); with no key no authorization header is sent.
C22_BearerIffKey ==
    \A i \in Calls : \A k \in 1..Len(request[i]) :
        IF C22_Key \notin {Undefined, Str(<<>>)}
        THEN /\ "authorization" \in DOMAIN request[i][k].headers
             /\ request[i][k].headers.authorization = <<"Bearer ">> \o C22_Key.s
        ELSE "authorization" \notin DOMAIN request[i][k].headers

C22_Witness ==
    \E i \in Calls :
        /\ Len(request[i]) = 1
        /\ opts.apiKey = Undefined
        /\ env.MERKL_API_KEY = Str(<<"e">>)
        /\ request[i][1].headers.authorization = <<"Bearer ", "e">>

\* the timeout the claim assigns to the configuration drawn
C25_Expected ==
    IF opts.timeoutMs.t = "number" /\ "n" \in DOMAIN opts.timeoutMs THEN opts.timeoutMs.n
    ELSE IF env.MERKL_TIMEOUT_MS = Str(<<"5", "0", "0", "0">>) THEN 5000
    ELSE 20000

\* C25: the request timeout is the constructor's timeoutMs when that is a
\* finite number, otherwise the number MERKL_TIMEOUT_MS parses to when it is
\* set and finite, otherwise 20000 ms; every request's timer uses it.
C25_EffectiveTimeout ==
    /\ client.timeoutMs = C25_Expected
    /\ \A i \in Calls : \A k \in 1..Len(timer[i]) : timer[i][k].delay = C25_Expected

C25_Witness ==
    /\ opts.timeoutMs = NaN
    /\ env.MERKL_TIMEOUT_MS = Str(<<"5", "0", "0", "0">>)
    /\ \A i \in Calls : Len(timer[i]) = 1 /\ timer[i][1].delay = 5000

C23_Filters == {"test", "point", "campaigns", "excludeSubCampaigns"}

\* C23: in opportunities-get the filters test, point, campaigns and
\* excludeSubCampaigns are false when the caller omits them, and false is
\* what the upstream request carries for them.
C23_GetDefaultsFalse ==
    \A i \in Calls :
        tool[i] = "opportunities-get" /\ Len(request[i]) = 1
        => \A k \in C23_Filters \ Keys(args[i]) :
               /\ QueryHas(request[i][1].query, k)
               /\ QueryValue(request[i][1].query, k) = <<"f", "a", "l", "s", "e">>

\* C24: the launcher starts the server only when the build output exists or
\* after a build it started exited with code 0; a build that exits with a
\* non-zero or null code makes the launcher exit non-zero without starting
\* the server; the server is started at most once.
C24_LauncherStartsServer ==
    /\ launcher.spawned <= 1
    /\ launcher.spawned = 1
       => launcher.dist \/ (launcher.build = "exited" /\ launcher.buildCode = Num(0))
    /\ launcher.build = "exited" /\ launcher.buildCode # Num(0)
       => /\ launcher.pc = "exited"
          /\ launcher.spawned = 0
          /\ launcher.exit # Undefined
          /\ launcher.exit # Null
          /\ launcher.exit # Num(0)

C24_Witness ==
    /\ ~launcher.dist
    /\ launcher.build = "exited"
    /\ launcher.buildCode = Null
    /\ launcher.pc = "exited"
    /\ launcher.exit = Num(1)
    /\ launcher.spawned = 0

\* C26: every tool invocation that is waiting for the upstream, for the
\* headers or for the end of the body, eventually completes.
C26_Completes == (pc[1] \in {"fetch", "json"}) ~> (pc[1] = "done")

\* the part of C26 that the timer does cover: a call waiting for the headers
\* eventually leaves that wait
C26_HeadersWaitEnds == (pc[1] = "fetch") ~> (pc[1] # "fetch")

\* the ids of a list of campaigns, in order
C27_Ids(l) == [k \in 1..Len(l) |-> l[k].id]

\* C27: the campaigns list opportunities-get and opportunities-campaigns
\* return has one entry per upstream campaign, in upstream order, ended ones
\* included; opportunities-search without excludeEndedCampaigns returns no
\* campaign that has ended.
C27_NoEndFilterInGet ==
    \A i \in Calls :
        pc[i] = "done" /\ outcome[i].kind = "result"
        => /\ tool[i] \in {"opportunities-get", "opportunities-campaigns"}
              => C27_Ids(outcome[i].value.opportunity.campaigns.value)
                    = C27_Ids(ListProp(response[i].body, "campaigns"))
           /\ tool[i] = "opportunities-search" /\ ~has(args[i], "excludeEndedCampaigns")
              => \A k \in 1..Len(outcome[i].value.results) :
                    \A j \in 1..Len(outcome[i].value.results[k].campaigns) :
                        outcome[i].value.results[k].campaigns[j].endTimestamp.n * 1000
                            >= settledAt[i]

C27_Witness ==
    \E i \in Calls :
        /\ tool[i] \in {"opportunities-get", "opportunities-campaigns"}
        /\ pc[i] = "done"
        /\ outcome[i].kind = "result"
        /\ response[i].body = MixedOpportunity
        /\ response[i].body.campaigns[1].endTime.n * 1000 < settledAt[i]
        /\ C27_Ids(outcome[i].value.opportunity.campaigns.value) = <<"6", "7">>

\* the chain segment expected for the chain names the upstream rows carry
C28_Chain(name) ==
    CASE name = <<"B", "a", "s", "e">> -> <<"b", "a", "s", "e">>
      [] name = <<"A", "r", "b", " ", "O", "n", "e">> -> <<"a", "r", "b", " ", "o", "n", "e">>
      [] name = <<"A", "r", "b", " ", " ", "O", "n", "e">> ->
            <<"a", "r", "b", " ", "o", "n", "e">>

\* the token segment expected for a campaign's params
C28_Token(p) ==
    IF "targetToken" \in DOMAIN p /\ p.targetToken # Null THEN p.targetToken
    ELSE IF "poolAddress" \in DOMAIN p THEN p.poolAddress ELSE Undefined

C28_Link(chain, type, token) ==
    [base |-> "https://app.merkl.xyz/opportunities/", chain |-> chain,
     type |-> type, token |-> token]

C29_TimeoutOnlyOnAbort ==
    \A i \in Calls :
        pc[i] = "done" /\ Len(request[i]) = 1
        => /\ TimedOut(i) <=> Fired(i)
           /\ Fired(i) => signal[i] /\ "status" \notin DOMAIN fetched[i].error
           /\ /\ response[i].status # 0
              /\ response[i].status \notin 200..299
              /\ ~(request[i][1].allow404 /\ response[i].status = 404)
              => fetched[i] = [kind |-> "error",
                               error |-> [name |-> "Error",
                                          text |-> "Merkl request failed",
                                          status |-> response[i].status,
                                          statusText |-> response[i].statusText]]
           /\ fetched[i].kind = "error" /\ response[i].status = 0 /\ ~Fired(i)
              => fetched[i].error \in TransportErrors

C29_Witness ==
    \E i \in Calls :
        /\ pc[i] = "done"
        /\ Len(request[i]) = 1
        /\ ~Fired(i)
        /\ response[i].status = 0
        /\ fetched[i].kind = "error"
        /\ fetched[i].error.name = "FetchError"
        /\ ~TimedOut(i)

\* the keys of the opportunities-search inputs
C30_Keys == {"items", "name", "campaigns", "excludeEndedCampaigns"}

\* C30: the query string of opportunities-search holds, each once, exactly
\* the keys of the input whose value is not empty, plus items and campaigns;
\* excludeEndedCampaigns is in it with the caller's value when the caller
\* supplied it, and is not in it otherwise.
C30_SearchQueryKeys ==
    \A i \in Calls :
        tool[i] = "opportunities-search" /\ pc[i] # "idle" /\ ~Rejected(i)
        => LET q == request[i][1].query
           IN /\ {k \in C30_Keys : QueryHas(q, k)} =
                    {k \in Keys(args[i]) : Get(args[i], k) \notin C3_Empty}
                        \cup {"items", "campaigns"}
              /\ Len(SelectSeq(q, LAMBDA x : x \in C30_Keys)) =
                    Cardinality({k \in C30_Keys : QueryHas(q, k)})
              /\ Len(SelectSeq(q, LAMBDA x : x = "=")) =
                    Cardinality({k \in C30_Keys : QueryHas(q, k)})
              /\ QueryHas(q, "excludeEndedCampaigns") <=> has(args[i], "excludeEndedCampaigns")
              /\ has(args[i], "excludeEndedCampaigns")
                 => QueryValue(q, "excludeEndedCampaigns") =
                       IF Get(args[i], "excludeEndedCampaigns").b THEN <<"t", "r", "u", "e">>
                       ELSE <<"f", "a", "l", "s", "e">>

C30_Witness ==
    \E i \in Calls :
        /\ tool[i] = "opportunities-search"
        /\ pc[i] = "fetch"
        /\ args[i] = <<<<"name", Str(<<>>)>>, <<"excludeEndedCampaigns", Bool(FALSE)>>>>
        /\ request[i][1].query =
              <<"?", "excludeEndedCampaigns", "=", "f", "a", "l", "s", "e",
                "&", "campaigns", "=", "t", "r", "u", "e",
                "&", "items", "=", "1", "0", "0">>

====
